---- MODULE Spec2Model ----
(***************************************************************************)
(* A model of run.ts: the script that matches the rows of an Amazon order  *)
(* export to the Amazon transactions of a Lunch Money ledger, classifies   *)
(* each matched order (gift / AI suggestion) and writes the category and   *)
(* an annotation back.                                                     *)
(*                                                                         *)
(* Text that the code inspects character by character (order ids, notes,   *)
(* recipients, summaries) is a sequence of one-character strings.  Text    *)
(* that is only compared with literals (names, items) is a string.         *)
(* parseFloat(x) of an amount is an integer number of thousandths; a date  *)
(* is the day number of its UTC midnight; null/undefined ids are 0.        *)
(***************************************************************************)
EXTENDS Integers, Sequences, FiniteSets, TLC

VARIABLES
    pc,                            \* position of the top-level script
    options,                       \* program.opts()
    lunchMoneyCategories,          \* await lunchMoney.getCategories()
    mappingFile,                   \* content of the documented --mapping-file
    csvRows,                       \* rows of the export file (readCSV)
    ledger,                        \* what getAllTransactionsPaging returns
    amazonTransactions,            \* the order pool, spliced by the matcher
    lunchMoneyAmazonTransactions,  \* the list the main loop iterates
    idx,                           \* index of the loop's current transaction
    cur,                           \* locals of the iteration that awaits
    trace,                         \* history: what happened to each transaction
    aiCalls,                       \* history: items sent to the categorizer
    updates,                       \* history: lunchMoney.updateTransaction calls
    log,                           \* history: log lines (tag, transaction id)
    env,                           \* what Start found: API key, export file
    aiReplies,                     \* history: what the categorizer answered
    giftIn,                        \* SpecGift: <<recipient, owner names>>
    giftOut                        \* SpecGift: result of the classifier

vars == <<pc, options, lunchMoneyCategories, mappingFile, csvRows, ledger,
          amazonTransactions, lunchMoneyAmazonTransactions, idx, cur, trace,
          aiCalls, updates, log, env, aiReplies, giftIn, giftOut>>

-----------------------------------------------------------------------------
(* Bounds *)

MaxPool == 2
MaxLedger == 2
MaxNames == 2

-----------------------------------------------------------------------------
(* Text helpers: String.prototype.trim / toLowerCase / includes / substring *)

Min(a, b) == IF a < b THEN a ELSE b

Abs(n) == IF n < 0 THEN 0 - n ELSE n

RECURSIVE TrimStart(_)
TrimStart(s) ==
    IF s # <<>> /\ Head(s) = " " THEN TrimStart(Tail(s)) ELSE s

RECURSIVE TrimEnd(_)
TrimEnd(s) ==
    IF s # <<>> /\ s[Len(s)] = " " THEN TrimEnd(SubSeq(s, 1, Len(s) - 1)) ELSE s

Trim(s) == TrimEnd(TrimStart(s))

LowerChar(c) ==
    CASE c = "A" -> "a"
      [] c = "B" -> "b"
      [] OTHER -> c

ToLowerCase(s) == [i \in 1..Len(s) |-> LowerChar(s[i])]

Includes(s, sub) ==
    \E i \in 0..(Len(s) - Len(sub)) : SubSeq(s, i + 1, i + Len(sub)) = sub

Substring0(s, n) == SubSeq(s, 1, Min(n, Len(s)))

\* Array.prototype.includes on a list of names
ArrayIncludes(list, x) == \E i \in 1..Len(list) : list[i] = x

\* Array.prototype.splice(i, 1): the array without its i-th element
RemoveAt(s, i) == SubSeq(s, 1, i - 1) \o SubSeq(s, i + 1, Len(s))

-----------------------------------------------------------------------------
(* Inputs.  Each catalogue lists the kinds of record the code tells apart. *)

NoText == <<>>

\* Rows of the export (AmazonTransaction).  total is parseFloat(total) in
\* thousandths, and 0 stands for the text "0"; date 0 stands for the texts
\* "pending", "?" and ""; payments lists the amounts (in cents) whose
\* two-decimal text occurs in the payments column.
OrderCatalog ==
    { [orderid |-> <<"A">>, items |-> "Elf; ", categories |-> <<"T", "K">>,
       to |-> NoText, date |-> 10, total |-> 10004, payments |-> {1000}],
      [orderid |-> <<"B">>, items |-> "Toy; ", categories |-> <<"T">>,
       to |-> <<"B">>, date |-> 12, total |-> 10000, payments |-> {1000}],
      [orderid |-> <<"A">>, items |-> "Pen; ", categories |-> <<"G">>,
       to |-> <<" ", "A">>, date |-> 9, total |-> 20000, payments |-> {2000}],
      [orderid |-> <<"D">>, items |-> "Ink; Cup; ", categories |-> NoText,
       to |-> <<"0">>, date |-> 10, total |-> 30000, payments |-> {1000, 2000}],
      [orderid |-> <<"E">>, items |-> "Card; ", categories |-> NoText,
       to |-> NoText, date |-> 11, total |-> 0, payments |-> {0}] }

\* Ledger transactions as fetched (the id is added by the fetch, below).
LedgerCatalog ==
    { [payee |-> "Amazon", amount |-> 10000, date |-> 10, category_id |-> 1,
       notes |-> NoText, is_group |-> FALSE, group_id |-> 0],
      [payee |-> "Amazon", amount |-> 20000, date |-> 11, category_id |-> 1,
       notes |-> <<"#", "A">>, is_group |-> FALSE, group_id |-> 0],
      [payee |-> "Amazon", amount |-> 10000, date |-> 12, category_id |-> 3,
       notes |-> <<"x">>, is_group |-> FALSE, group_id |-> 0],
      [payee |-> "Amazon", amount |-> 10000, date |-> 10, category_id |-> 1,
       notes |-> NoText, is_group |-> TRUE, group_id |-> 0],
      [payee |-> "Amazon", amount |-> 20000, date |-> 9, category_id |-> 1,
       notes |-> NoText, is_group |-> FALSE, group_id |-> 7],
      [payee |-> "Other", amount |-> 0 - 10000, date |-> 10, category_id |-> 1,
       notes |-> NoText, is_group |-> FALSE, group_id |-> 0] }

Category(id, name, group, income) ==
    [id |-> id, name |-> name, is_group |-> group, is_income |-> income,
     archived |-> FALSE, exclude_from_budget |-> FALSE]

\* Two ledgers' category lists: one with a "Gifts" category, one where the
\* only "Gifts" is a category group.
CategoryLists ==
    { << Category(1, "Shopping", FALSE, FALSE), Category(2, "Gifts", FALSE, FALSE),
         Category(3, "Groceries", FALSE, FALSE), Category(4, "Salary", FALSE, TRUE) >>,
      << Category(1, "Shopping", FALSE, FALSE), Category(5, "Gifts", TRUE, FALSE),
         Category(3, "Groceries", FALSE, FALSE) >> }

\* options.ownerNames: undefined when -n is not given, else the names given
NotGiven == [given |-> FALSE, names |-> <<>>]

Given(names) == [given |-> TRUE, names |-> names]

Options(dryRun, defaultCategory, names) ==
    [dryRun |-> dryRun, defaultCategory |-> defaultCategory, ownerNames |-> names]

\* the command lines tried: a dry and a real run, a default category the
\* ledger does not have, and a run without -n
OptionSets ==
    { Options(TRUE, "Shopping", Given(<< <<"A", " ">> >>)),
      Options(FALSE, "Shopping", Given(<< <<"A", " ">> >>)),
      Options(FALSE, "Nowhere", Given(<< <<"A", " ">> >>)),
      Options(FALSE, "Shopping", NotGiven) }

\* The documented mapping file: ordered (prefix, target category name) pairs
MappingFiles ==
    { << [prefix |-> <<"T", "K">>, target |-> "Groceries"],
         [prefix |-> <<"T">>, target |-> "Gifts"] >> }

SeqsUpTo(S, n) == UNION { [1..k -> S] : k \in 0..n }

\* the fetch gives every transaction its own id; a row its own row number
WithIds(list) ==
    [i \in 1..Len(list) |->
        [id |-> 100 + i, payee |-> list[i].payee, amount |-> list[i].amount,
         date |-> list[i].date, category_id |-> list[i].category_id,
         notes |-> list[i].notes, is_group |-> list[i].is_group,
         group_id |-> list[i].group_id]]

WithRows(list) ==
    [i \in 1..Len(list) |->
        [row |-> i, orderid |-> list[i].orderid, items |-> list[i].items,
         categories |-> list[i].categories, to |-> list[i].to,
         date |-> list[i].date, total |-> list[i].total,
         payments |-> list[i].payments]]

-----------------------------------------------------------------------------
(* The program's pure functions *)

LUNCHMONEY_NOTE_LIMIT == 350

GiftCategoryName == "Gifts"

\* promptCategories: the categories offered to the categorizer
promptCategories(categories) ==
    SelectSeq(categories,
              LAMBDA c : ~c.is_income /\ ~c.archived
                         /\ ~c.exclude_from_budget /\ ~c.is_group)

\* categoryNameToId: the id of the first non-group category of that name,
\* 0 (undefined) when there is none
categoryNameToId(categories, categoryName) ==
    LET hits == SelectSeq(categories,
                          LAMBDA c : ~c.is_group /\ c.name = categoryName)
    IN  IF hits = <<>> THEN 0 ELSE hits[1].id

\* parseFloat(x).toFixed(2), as a number of cents: thousandths rounded to
\* the nearest cent (no input of the model lies on a half cent)
ToFixed2(amount) ==
    IF amount >= 0 THEN (amount + 5) \div 10
    ELSE 0 - ((5 - amount) \div 10)

\* dateFns.differenceInDays of two dates at UTC midnight
differenceInDays(left, right) == left - right

DateDistance(parsedDate, order) == Abs(differenceInDays(parsedDate, order.date))

\* Array.prototype.sort with the comparator of lines 283-287: stable, so an
\* element goes behind every element that does not compare greater
RECURSIVE InsertByDate(_, _, _)
InsertByDate(sorted, x, parsedDate) ==
    IF sorted = <<>> THEN <<x>>
    ELSE IF DateDistance(parsedDate, Head(sorted)) - DateDistance(parsedDate, x) <= 0
         THEN <<Head(sorted)>> \o InsertByDate(Tail(sorted), x, parsedDate)
         ELSE <<x>> \o sorted

RECURSIVE SortByDate(_, _)
SortByDate(list, parsedDate) ==
    IF list = <<>> THEN <<>>
    ELSE InsertByDate(SortByDate(SubSeq(list, 1, Len(list) - 1), parsedDate),
                      list[Len(list)], parsedDate)

\* Array.prototype.findIndex with the predicate of line 291 (1-based; the
\* match is itself in the pool, so there is one)
FindIndexByOrderId(pool, matchingTransaction) ==
    CHOOSE i \in 1..Len(pool) :
        /\ Trim(pool[i].orderid) = Trim(matchingTransaction.orderid)
        /\ \A j \in 1..(i - 1) :
              Trim(pool[j].orderid) # Trim(matchingTransaction.orderid)

\* mutant: the payments text also makes a candidate
IsPossibleMatch_OrPayments(uncategorizedTransaction, amazonTransaction) ==
    \/ ToFixed2(amazonTransaction.total) = ToFixed2(uncategorizedTransaction.amount)
    \/ ToFixed2(uncategorizedTransaction.amount) \in amazonTransaction.payments

IsPossibleMatch(uncategorizedTransaction, amazonTransaction) ==
    ToFixed2(amazonTransaction.total) = ToFixed2(uncategorizedTransaction.amount)

\* mutant: the match is returned and left in the pool
findMatching_NoSplice(uncategorizedTransaction, remaining) ==
    LET possibleMatches ==
            SelectSeq(remaining,
                      LAMBDA o : IsPossibleMatch(uncategorizedTransaction, o))
    IN  IF possibleMatches = <<>>
        THEN [found |-> FALSE, pool |-> remaining]
        ELSE [found |-> TRUE,
              order |-> SortByDate(possibleMatches, uncategorizedTransaction.date)[1],
              pool |-> remaining]

\* findMatchingLunchMoneyTransaction: the order returned (found = FALSE for
\* null) and the pool it leaves
findMatchingLunchMoneyTransaction(uncategorizedTransaction, remaining) ==
    LET possibleMatches ==
            SelectSeq(remaining,
                      LAMBDA o : IsPossibleMatch(uncategorizedTransaction, o))
    IN  IF possibleMatches = <<>>
        THEN [found |-> FALSE, pool |-> remaining]
        ELSE LET sorted == SortByDate(possibleMatches, uncategorizedTransaction.date)
                 matchingTransaction == sorted[1]
                 matchingTransactionIndex ==
                     FindIndexByOrderId(remaining, matchingTransaction)
             IN  [found |-> TRUE,
                  order |-> remaining[matchingTransactionIndex],
                  pool |-> RemoveAt(remaining, matchingTransactionIndex)]

\* line 300: the owner names as the classifier reads them
MapOwnerNames(names) == [i \in 1..Len(names) |-> Trim(ToLowerCase(names[i]))]

\* !ownerNames: an array, empty or not, is never falsy
ArrayIsFalsy(list) == FALSE

\* orderIsGift
orderIsGift(transaction, ownerNames) ==
    IF ArrayIsFalsy(ownerNames) \/ transaction.to = NoText \/ transaction.to = <<"0">>
    THEN FALSE
    ELSE ~ArrayIncludes(ownerNames, Trim(ToLowerCase(transaction.to)))

\* What the categorizer may answer.  kind: "empty" (no content), "malformed"
\* (JSON.parse or the property read throws), "json" (an object).  id is the
\* object's id (0: none, not a number), idIsText says it came as text.
AIReply(kind, id, idIsText, summary) ==
    [kind |-> kind, id |-> id, idIsText |-> idIsText, summary |-> summary]

\* a summary as long as a whole note may be
LongSummary == [i \in 1..LUNCHMONEY_NOTE_LIMIT |-> "z"]

AIResponses ==
    { AIReply("malformed", 0, FALSE, NoText),
      AIReply("empty", 0, FALSE, NoText),
      AIReply("json", 3, FALSE, <<"s">>),
      AIReply("json", 4, FALSE, LongSummary),
      AIReply("json", 3, TRUE, NoText) }

AIThrowsOn(response) == response.kind = "malformed"

\* aiTransactionSummary, for a response it does not throw on: {id, summary}
aiTransactionSummary(response, categories) ==
    IF response.kind = "empty"
    THEN [id |-> 0, idIsText |-> FALSE, summary |-> NoText]
    ELSE LET chosenId == response.id   \* parseInt(id, 10); 0 is NaN
         IN  IF chosenId = 0
                \/ ~\E i \in 1..Len(promptCategories(categories)) :
                       promptCategories(categories)[i].id = chosenId
             THEN [id |-> 0, idIsText |-> FALSE, summary |-> response.summary]
             ELSE [id |-> response.id, idIsText |-> response.idIsText,
                   summary |-> response.summary]

\* lines 358-363: the name of the category the summary chose ("" for null);
\* === never equates a text id with a category's number
TargetOfSummary(summaryResponse, categories) ==
    IF summaryResponse.id = 0 THEN ""
    ELSE LET hits == SelectSeq(promptCategories(categories),
                               LAMBDA c : ~summaryResponse.idIsText
                                          /\ c.id = summaryResponse.id)
         IN  IF hits = <<>> THEN "" ELSE hits[1].name

\* mutant: the note is not cut to the limit
ComposeNote_Uncut(orderid, notes, transactionSummary) ==
    Trim(<<"#">> \o orderid \o <<" ">> \o notes)
        \o (IF transactionSummary # NoText
            THEN <<".", " ">> \o transactionSummary ELSE <<>>)

\* lines 367-377: the note
ComposeNote(orderid, notes, transactionSummary) ==
    LET base == Trim(<<"#">> \o orderid \o <<" ">> \o notes)
        full == IF transactionSummary # NoText
                THEN base \o <<".", " ">> \o transactionSummary
                ELSE base
    IN  Substring0(full, LUNCHMONEY_NOTE_LIMIT)

\* lines 379-381
ShouldUpdateNote(orderid, notes) == ~Includes(notes, orderid)

\* mutant: the notes-only update forgets the dry run
NotesOnlyUpdateGuard_IgnoresDryRun(dryRun, shouldUpdateNote) == shouldUpdateNote

\* line 389: the guard of the notes-only update
NotesOnlyUpdateGuard(dryRun, shouldUpdateNote) == ~dryRun /\ shouldUpdateNote

\* line 421: the guard of the category update
CategoryUpdateGuard(dryRun) == ~dryRun

\* lines 328-330
IsAlreadyCategorized(transaction, defaultId) == transaction.category_id # defaultId

\* mutant: only the group itself is passed over, not its members
IsGroupTransaction_FlagOnly(transaction) == transaction.is_group

\* lines 335-338
IsGroupTransaction(transaction) ==
    transaction.is_group \/ transaction.group_id # 0

\* mutant: the categorizer is asked about every order
TakesGiftBranch_Never(order, names) == FALSE

\* line 348: the branch that skips the categorizer
TakesGiftBranch(order, names) == orderIsGift(order, names)

\* mutant: a failed update is tried again
AfterUpdate_RetryOnFailure(updated, position) ==
    [pc |-> "loop", idx |-> IF updated THEN position + 1 ELSE position]

\* lines 397-403, 433-439: where the script goes on after update's answer
AfterUpdate(updated, position) == [pc |-> "loop", idx |-> position + 1]

\* mutant: rows with a total of "0" are kept
IsMatchableRow_KeepsZeroTotals(transaction) ==
    /\ transaction.date # 0
    /\ transaction.items # "pending"
    /\ transaction.items # ""

\* lines 170-183: the rows the matcher may use
IsMatchableRow(transaction) ==
    /\ transaction.total # 0
    /\ transaction.date # 0
    /\ transaction.items # "pending"
    /\ transaction.items # ""

\* lines 236-245: Amazon's charges among the fetched transactions
IsAmazonCharge(transaction) ==
    transaction.payee = "Amazon" /\ transaction.amount > 0

-----------------------------------------------------------------------------
(* The script as a state machine.  Its suspension points that matter are   *)
(* the call of the categorizer and the call of updateTransaction.          *)

\* the environment before Start has looked at it
NotRead == [read |-> FALSE, keySet |-> FALSE, fileExists |-> FALSE]

defaultCategoryId == categoryNameToId(lunchMoneyCategories, options.defaultCategory)

ownerNames == MapOwnerNames(options.ownerNames.names)

Init ==
    /\ pc = "start"
    /\ options \in OptionSets
    /\ lunchMoneyCategories \in CategoryLists
    /\ mappingFile \in MappingFiles
    /\ csvRows \in { WithRows(rows) : rows \in SeqsUpTo(OrderCatalog, MaxPool) }
    /\ ledger \in { WithIds(list) : list \in SeqsUpTo(LedgerCatalog, MaxLedger) }
    /\ amazonTransactions = <<>>
    /\ lunchMoneyAmazonTransactions = <<>>
    /\ idx = 1
    /\ cur = <<>>
    /\ trace = <<>>
    /\ aiCalls = <<>>
    /\ updates = <<>>
    /\ log = <<>>
    /\ env = NotRead
    /\ aiReplies = <<>>
    /\ giftIn = <<>>
    /\ giftOut = <<>>

inputs == <<options, lunchMoneyCategories, mappingFile, csvRows, ledger>>

giftVars == <<giftIn, giftOut>>

\* lines 52-302: everything before the loop.  keySet and fileExists are
\* read from the environment.
Start ==
    /\ pc = "start"
    /\ \E keySet \in BOOLEAN, fileExists \in BOOLEAN :
          LET matchable == SelectSeq(csvRows, IsMatchableRow)
              ok == /\ keySet
                    /\ defaultCategoryId # 0
                    /\ fileExists
                    /\ matchable # <<>>
          IN  /\ pc' = IF ~ok THEN "exit1"
                       ELSE IF ~options.ownerNames.given THEN "crashed"
                       ELSE "loop"
              /\ amazonTransactions' =
                     IF keySet /\ defaultCategoryId # 0 /\ fileExists
                     THEN matchable ELSE <<>>
              /\ lunchMoneyAmazonTransactions' =
                     IF ok THEN SelectSeq(ledger, IsAmazonCharge) ELSE <<>>
              /\ log' = IF ~keySet THEN <<"Lunch Money API key not set">>
                        ELSE IF defaultCategoryId = 0 THEN <<"Default category not found">>
                        ELSE IF ~fileExists THEN <<"File does not exist">>
                        ELSE IF matchable = <<>> THEN <<"No transactions found after filtering">>
                        ELSE <<>>
              /\ env' = [read |-> TRUE, keySet |-> keySet, fileExists |-> fileExists]
    /\ UNCHANGED <<inputs, idx, cur, trace, aiCalls, aiReplies, updates, giftVars>>

\* reply: the kind of answer the categorizer gave ("" when it was not asked)
Entry(t, order, status, isGift, reply, target, summary, note) ==
    [id |-> t.id, status |-> status, order |-> order, isGift |-> isGift,
     reply |-> reply, target |-> target, summary |-> summary, note |-> note]

NoOrder ==
    [row |-> 0, orderid |-> NoText, items |-> "", categories |-> NoText,
     to |-> NoText, date |-> 0, total |-> 0, payments |-> {}]

UpdateCall(t, category_id, hasNotes, notes) ==
    [id |-> t.id, category_id |-> category_id, hasNotes |-> hasNotes,
     notes |-> notes, response |-> "pending"]

\* lines 366-438: compose the note, resolve the category, call update.
\* target "" is the null targetCategoryName.
Apply(t, order, isGift, reply, target, summary) ==
    LET newNote == ComposeNote(order.orderid, t.notes, summary)
        shouldUpdateNote == ShouldUpdateNote(order.orderid, t.notes)
        newCategoryId == categoryNameToId(lunchMoneyCategories, target)
        entry(status) == Entry(t, order, status, isGift, reply, target, summary, newNote)
        next(status, lines) ==
            /\ trace' = Append(trace, entry(status))
            /\ log' = log \o lines
            /\ updates' = updates
            /\ idx' = idx + 1
            /\ pc' = "loop"
        call(payload, lines) ==
            /\ trace' = Append(trace, entry("Updating"))
            /\ log' = log \o lines
            /\ updates' = Append(updates, payload)
            /\ idx' = idx
            /\ pc' = "awaitUpdate"
    IN  IF target = ""
        THEN IF NotesOnlyUpdateGuard(options.dryRun, shouldUpdateNote)
             THEN call(UpdateCall(t, 0, TRUE, newNote), << <<"no rule match", t.id>> >>)
             ELSE next(IF options.dryRun THEN "DryRunSimulated" ELSE "NothingToWrite",
                       << <<"no rule match", t.id>> >>)
        ELSE IF newCategoryId = 0
        THEN next("InvalidCategory", << <<"invalid category name", t.id>> >>)
        ELSE IF CategoryUpdateGuard(options.dryRun)
        THEN call(UpdateCall(t, newCategoryId, shouldUpdateNote,
                             IF shouldUpdateNote THEN newNote ELSE NoText),
                  << <<"updating transaction", t.id>> >>)
        ELSE next("DryRunSimulated", << <<"updating transaction", t.id>> >>)

\* lines 313-353: one turn of the loop, up to the call of the categorizer
ProcessTransaction ==
    /\ pc = "loop"
    /\ idx <= Len(lunchMoneyAmazonTransactions)
    /\ LET t == lunchMoneyAmazonTransactions[idx]
           m == findMatchingLunchMoneyTransaction(t, amazonTransactions)
           skip(order, status, line) ==
               /\ trace' = Append(trace,
                     Entry(t, order, status, FALSE, "", "", NoText, NoText))
               /\ log' = log \o line
               /\ UNCHANGED <<cur, aiCalls, updates, pc>>
               /\ idx' = idx + 1
       IN  /\ amazonTransactions' = m.pool
           /\ IF ~m.found
              THEN skip(NoOrder, "NoMatch", << <<"no match", t.id>> >>)
              ELSE IF IsAlreadyCategorized(t, defaultCategoryId)
              THEN skip(m.order, "AlreadyCategorizedSkip", <<>>)
              ELSE IF IsGroupTransaction(t)
              THEN skip(m.order, "GroupSkip", << <<"skipping group transaction", t.id>> >>)
              ELSE IF TakesGiftBranch(m.order, ownerNames)
              THEN /\ Apply(t, m.order, TRUE, "", GiftCategoryName, NoText)
                   /\ UNCHANGED <<cur, aiCalls>>
              ELSE /\ cur' = <<m.order>>
                   /\ aiCalls' = Append(aiCalls, [id |-> t.id, items |-> m.order.items])
                   /\ pc' = "awaitAI"
                   /\ UNCHANGED <<idx, trace, updates, log>>
    /\ UNCHANGED <<inputs, lunchMoneyAmazonTransactions, env, aiReplies, giftVars>>

\* lines 118-144, 353-364: the categorizer answers
AIReturns ==
    /\ pc = "awaitAI"
    /\ \E response \in AIResponses :
          /\ LET t == lunchMoneyAmazonTransactions[idx]
                 order == cur[1]
             IN  IF AIThrowsOn(response)
                 THEN /\ pc' = "crashed"
                      /\ trace' = Append(trace,
                            Entry(t, order, "Crashed", FALSE, response.kind, "", NoText, NoText))
                      /\ UNCHANGED <<idx, updates, log>>
                 ELSE LET summaryResponse ==
                              aiTransactionSummary(response, lunchMoneyCategories)
                          target == TargetOfSummary(summaryResponse, lunchMoneyCategories)
                      IN  Apply(t, order, FALSE, response.kind, target, summaryResponse.summary)
          /\ aiReplies' = Append(aiReplies,
                 [id |-> lunchMoneyAmazonTransactions[idx].id, response |-> response])
    /\ cur' = <<>>
    /\ UNCHANGED <<inputs, amazonTransactions, lunchMoneyAmazonTransactions,
                   aiCalls, env, giftVars>>

\* lines 397-401, 433-437: updateTransaction answers
UpdateReturns ==
    /\ pc = "awaitUpdate"
    /\ \E updated \in BOOLEAN :
          LET t == lunchMoneyAmazonTransactions[idx]
              n == Len(updates)
              k == Len(trace)
          IN  /\ updates' = [updates EXCEPT
                     ![n].response = IF updated THEN "updated" ELSE "not updated"]
              /\ trace' = [trace EXCEPT
                     ![k].status = IF updated THEN "Applied" ELSE "ApplyFailed"]
              /\ log' = Append(log, IF updated THEN <<"updated", t.id>>
                                    ELSE <<"failed to update transaction", t.id>>)
              /\ idx' = AfterUpdate(updated, idx).idx
              /\ pc' = AfterUpdate(updated, idx).pc
    /\ UNCHANGED <<inputs, amazonTransactions, lunchMoneyAmazonTransactions,
                   cur, aiCalls, env, aiReplies, giftVars>>

\* line 441: the loop is over
Finish ==
    /\ pc = "loop"
    /\ idx > Len(lunchMoneyAmazonTransactions)
    /\ pc' = "done"
    /\ UNCHANGED <<inputs, amazonTransactions, lunchMoneyAmazonTransactions,
                   idx, cur, trace, aiCalls, updates, log, env, aiReplies, giftVars>>

Next == Start \/ ProcessTransaction \/ AIReturns \/ UpdateReturns \/ Finish

Spec == Init /\ [][Next]_vars

-----------------------------------------------------------------------------
(* The gift classifier on its own: any recipient, any list of owner names *)

Recipients == { NoText, <<"0">>, <<"A">>, <<" ", "a", " ">>, <<"B">>, <<"0", " ">> }

RawNames == { <<"A", " ">>, <<"b">>, <<"a">> }

InitGift ==
    /\ pc = "classify"
    /\ giftIn \in { <<to, names>> : to \in Recipients, names \in SeqsUpTo(RawNames, MaxNames) }
    /\ giftOut = <<>>
    /\ options = Options(FALSE, "Shopping", Given(giftIn[2]))
    /\ lunchMoneyCategories = <<>>
    /\ mappingFile = <<>>
    /\ csvRows = <<>>
    /\ ledger = <<>>
    /\ amazonTransactions = <<>>
    /\ lunchMoneyAmazonTransactions = <<>>
    /\ idx = 1
    /\ cur = <<>>
    /\ trace = <<>>
    /\ aiCalls = <<>>
    /\ updates = <<>>
    /\ log = <<>>
    /\ env = NotRead
    /\ aiReplies = <<>>

Classify ==
    /\ pc = "classify"
    /\ giftOut' = << orderIsGift([to |-> giftIn[1]], ownerNames) >>
    /\ pc' = "classified"
    /\ UNCHANGED <<inputs, amazonTransactions, lunchMoneyAmazonTransactions,
                   idx, cur, trace, aiCalls, updates, log, env, aiReplies, giftIn>>

NextGift == Classify

SpecGift == InitGift /\ [][NextGift]_vars

-----------------------------------------------------------------------------
(* Properties *)

Rows(list) == { list[i].row : i \in 1..Len(list) }

\* the ledger transaction an id names
Fetched(id) == CHOOSE t \in { ledger[i] : i \in 1..Len(ledger) } : t.id = id

\* the entries of transactions that got past the skip checks
Categorized(e) ==
    e.status \in {"DryRunSimulated", "NothingToWrite", "InvalidCategory",
                  "Updating", "Applied", "ApplyFailed", "Crashed"}

\* a step of the loop that runs the matcher on the current transaction
MatchStep == pc = "loop" /\ idx <= Len(lunchMoneyAmazonTransactions)

CurrentTransaction == lunchMoneyAmazonTransactions[idx]

\* the order the matcher returned in the step just taken (row 0: none)
ReturnedOrder ==
    IF cur # <<>> THEN cur[1]
    ELSE IF trace # <<>> THEN trace[Len(trace)].order
    ELSE NoOrder

EqualTotalIndexes(t, pool) ==
    { i \in 1..Len(pool) : ToFixed2(pool[i].total) = ToFixed2(t.amount) }

\* the earliest among the equal-total orders closest in days
BestIndex(t, pool) ==
    CHOOSE i \in EqualTotalIndexes(t, pool) :
        \A j \in EqualTotalIndexes(t, pool) :
            \/ DateDistance(t.date, pool[i]) < DateDistance(t.date, pool[j])
            \/ DateDistance(t.date, pool[i]) = DateDistance(t.date, pool[j]) /\ i <= j

\* C1: no order record is bound to more than one ledger transaction: the
\* orders returned so far are pairwise different records and none of them is
\* still in the pool, whatever became of their transactions.
C1_NoOrderBoundTwice ==
    LET bound == [i \in 1..(Len(trace) + Len(cur)) |->
                     IF i <= Len(trace) THEN trace[i].order.row ELSE cur[1].row]
    IN  \A i \in DOMAIN bound :
            bound[i] # 0 =>
                /\ bound[i] \notin Rows(amazonTransactions)
                /\ \A j \in DOMAIN bound : j # i => bound[j] # bound[i]

\* two transactions bound to orders of the same total, the first one's
\* update having failed
C1_Witness ==
    /\ Len(trace) = 2
    /\ trace[1].status = "ApplyFailed"
    /\ trace[1].order.row # 0 /\ trace[2].order.row # 0
    /\ ToFixed2(trace[1].order.total) = ToFixed2(trace[2].order.total)

\* C2: when some order of the pool has the ledger amount as its total, the
\* matcher returns the earliest of the equal-total orders closest in days,
\* removes exactly that one and keeps the rest in order, duplicates of an
\* order id included.
C2_MatchReturnsClosestEqualTotal ==
    [][ (MatchStep /\ EqualTotalIndexes(CurrentTransaction, amazonTransactions) # {})
        => LET k == BestIndex(CurrentTransaction, amazonTransactions)
           IN  /\ ReturnedOrder' = amazonTransactions[k]
               /\ amazonTransactions' = RemoveAt(amazonTransactions, k) ]_vars

PaymentsContain(order, t) == ToFixed2(t.amount) \in order.payments

IsCandidate(order, t) ==
    ToFixed2(order.total) = ToFixed2(t.amount) \/ PaymentsContain(order, t)

StepReportsNoMatch ==
    /\ Len(trace') = Len(trace) + 1
    /\ trace'[Len(trace')].status = "NoMatch"

\* C3 (as claimed): an order whose total or whose payments text holds the
\* ledger amount is a candidate, so a transaction with such an order in the
\* pool is matched to a candidate and not reported as "no match".
C3_PaymentsTextMakesCandidate ==
    [][ (MatchStep /\ \E i \in 1..Len(amazonTransactions) :
                         IsCandidate(amazonTransactions[i], CurrentTransaction))
        => ~StepReportsNoMatch ]_vars

\* C3 (amended): a transaction is reported as "no match" exactly when no
\* order of the pool has a total equal to its amount to two decimals; the
\* payments text plays no part.
C3_OnlyTotalsMakeCandidates ==
    [][ MatchStep
        => (StepReportsNoMatch
            <=> EqualTotalIndexes(CurrentTransaction, amazonTransactions) = {}) ]_vars

\* a transaction was reported as "no match" while an order whose payments
\* hold its amount stayed in the pool
C3_Witness ==
    \E i \in 1..Len(trace) :
        /\ trace[i].status = "NoMatch"
        /\ \E k \in 1..Len(amazonTransactions) :
              PaymentsContain(amazonTransactions[k], Fetched(trace[i].id))

C5_DryRunNeverUpdates ==
    options.dryRun =>
        /\ updates = <<>>
        /\ pc # "awaitUpdate"
        /\ \A i \in 1..Len(trace) :
              /\ trace[i].status \notin {"Updating", "Applied", "ApplyFailed"}
              /\ Categorized(trace[i]) =>
                    IF orderIsGift(trace[i].order, ownerNames)
                    THEN trace[i].target = "Gifts"
                    ELSE \E n \in 1..Len(aiCalls) : aiCalls[n].id = trace[i].id

\* a finished dry run that computed a gift or a suggested category for one
\* transaction and left another unresolved
C5_Witness ==
    /\ options.dryRun /\ pc = "done"
    /\ \E i, j \in 1..Len(trace) :
          /\ trace[i].status = "DryRunSimulated" /\ trace[i].target # ""
          /\ trace[j].status = "DryRunSimulated" /\ trace[j].target = ""

\* C6: every update call names a transaction that was fetched with the
\* default category and is neither a group nor in a group.
C6_UpdatesOnlyDefaultUngrouped ==
    \A n \in 1..Len(updates) :
        LET t == Fetched(updates[n].id)
        IN  /\ t.category_id = defaultCategoryId
            /\ ~t.is_group
            /\ t.group_id = 0

\* an update was made, and a matched transaction of another category or of a
\* group was passed over
C6_Witness ==
    /\ updates # <<>>
    /\ \E i \in 1..Len(trace) :
          /\ trace[i].status \in {"AlreadyCategorizedSkip", "GroupSkip"}
          /\ trace[i].order.row # 0

\* C7: a matched, eligible transaction whose order is a gift gets the
\* category name "Gifts", the categorizer is not asked about it, and its
\* note carries no summary.
C7_GiftTakesPrecedence ==
    \A i \in 1..Len(trace) :
        (Categorized(trace[i]) /\ orderIsGift(trace[i].order, ownerNames)) =>
            /\ trace[i].target = "Gifts"
            /\ trace[i].reply = ""
            /\ \A n \in 1..Len(aiCalls) : aiCalls[n].id # trace[i].id
            /\ trace[i].summary = NoText
            /\ trace[i].note =
                   Substring0(Trim(<<"#">> \o trace[i].order.orderid \o <<" ">>
                                   \o Fetched(trace[i].id).notes),
                              LUNCHMONEY_NOTE_LIMIT)

\* a gift was categorized after the categorizer had been asked about an
\* earlier transaction
C7_Witness ==
    /\ aiCalls # <<>>
    /\ \E i \in 1..Len(trace) :
          /\ trace[i].isGift
          /\ trace[i].status = "Applied"

\* the documented rule table: the target of the first prefix, in declaration
\* order, that the category path starts with ("" when there is none)
RuleLookup(table, path) ==
    LET hits == SelectSeq(table,
                    LAMBDA r : /\ Len(r.prefix) <= Len(path)
                               /\ SubSeq(path, 1, Len(r.prefix)) = r.prefix)
    IN  IF hits = <<>> THEN "" ELSE hits[1].target

\* C8: for an order that is not a gift the rule table comes first: when a
\* prefix of the table matches the order's category path the outcome is the
\* first such rule's target and the categorizer is not asked.
C8_RuleTableBeforeCategorizer ==
    \A i \in 1..Len(trace) :
        (/\ Categorized(trace[i])
         /\ ~orderIsGift(trace[i].order, ownerNames)
         /\ RuleLookup(mappingFile, trace[i].order.categories) # "") =>
            /\ trace[i].target = RuleLookup(mappingFile, trace[i].order.categories)
            /\ trace[i].reply = ""

\* C9: a response of the categorizer that cannot be parsed leaves the
\* transaction unresolved with no summary, and the run goes on to the end.
C9_MalformedResponseIsSkipped ==
    \A i \in 1..Len(trace) :
        trace[i].reply = "malformed" =>
            /\ trace[i].status \in {"DryRunSimulated", "NothingToWrite",
                                    "Updating", "Applied", "ApplyFailed"}
            /\ trace[i].target = "" /\ trace[i].summary = NoText
            /\ pc # "crashed"

UpdateIds == [n \in 1..Len(updates) |-> updates[n].id]

\* C10: a failed update is logged and not tried again, and the script goes
\* on with the next transaction from the state it would have gone on from
\* had the update succeeded.
C10_FailedUpdateIsIsolated ==
    [][ /\ Len(updates') > Len(updates) =>
              \A n \in 1..Len(updates) : UpdateIds[n] # UpdateIds'[Len(updates')]
        /\ pc = "awaitUpdate" =>
              /\ pc' = "loop" /\ idx' = idx + 1
              /\ UpdateIds' = UpdateIds
              /\ amazonTransactions' = amazonTransactions /\ cur' = cur
              /\ (updates'[Len(updates)].response = "not updated"
                  => log' = Append(log, <<"failed to update transaction",
                                          CurrentTransaction.id>>)) ]_vars

\* the first transaction's update failed and the second transaction was
\* updated all the same
C10_Witness ==
    /\ Len(trace) = 2
    /\ trace[1].status = "ApplyFailed"
    /\ trace[2].status = "Applied"
    /\ Len(updates) = 2

\* the entry of the transaction an update call names
EntryOf(id) == CHOOSE e \in { trace[i] : i \in 1..Len(trace) } : e.id = id

\* C11: an update call carries a notes field only for a transaction whose
\* notes did not hold the matched order's id, and the text is then
\* "#<order id> <notes>" trimmed, plus ". <summary>" when there is a summary,
\* cut to 350 characters; a transaction whose notes already hold the id (as
\* an earlier run leaves them) gets no notes field.
C11_NotesWrittenOnceAndBounded ==
    \A n \in 1..Len(updates) :
        LET e == EntryOf(updates[n].id)
            existing == Fetched(updates[n].id).notes
            id == e.order.orderid
            text == Trim(<<"#">> \o id \o <<" ">> \o existing)
                    \o (IF e.summary # NoText THEN <<".", " ">> \o e.summary ELSE <<>>)
        IN  /\ updates[n].hasNotes <=> ~Includes(existing, id)
            /\ updates[n].hasNotes =>
                  /\ Len(updates[n].notes) <= 350
                  /\ updates[n].notes = SubSeq(text, 1, Min(350, Len(text)))

\* a note was cut to 350 characters in one call, and another call, for a
\* transaction whose notes held the order id, carried no notes
C11_Witness ==
    \E m, n \in 1..Len(updates) :
        /\ updates[m].hasNotes
        /\ Len(updates[m].notes) = 350
        /\ Len(EntryOf(updates[m].id).summary) + 4 > 350
        /\ ~updates[n].hasNotes
        /\ Includes(Fetched(updates[n].id).notes, EntryOf(updates[n].id).order.orderid)

\* C12: without an API key, a default category the ledger has, an export
\* file or a single matchable row in it, the script ends with exit code 1
\* before the loop: nothing is matched, asked or updated.
C12_ConfigurationErrorsAreFatal ==
    (/\ env.read
     /\ \/ ~env.keySet
        \/ ~\E i \in 1..Len(lunchMoneyCategories) :
               /\ ~lunchMoneyCategories[i].is_group
               /\ lunchMoneyCategories[i].name = options.defaultCategory
        \/ ~env.fileExists
        \/ ~\E i \in 1..Len(csvRows) :
               /\ csvRows[i].total # 0 /\ csvRows[i].date # 0
               /\ csvRows[i].items \notin {"pending", ""})
    => /\ pc = "exit1"
       /\ updates = <<>> /\ trace = <<>> /\ aiCalls = <<>>
       /\ lunchMoneyAmazonTransactions = <<>>

\* the script gave up on an export whose only rows are filtered out, with
\* transactions waiting in the ledger
C12_Witness ==
    /\ pc = "exit1"
    /\ env.keySet /\ env.fileExists /\ defaultCategoryId # 0
    /\ csvRows # <<>>
    /\ \E i \in 1..Len(ledger) : IsAmazonCharge(ledger[i])

\* what the categorizer answered about a transaction
ReplyOf(id) ==
    (CHOOSE r \in { aiReplies[n] : n \in 1..Len(aiReplies) } : r.id = id).response

EligibleIds ==
    { lunchMoneyCategories[i].id : i \in
        { k \in 1..Len(lunchMoneyCategories) :
            /\ ~lunchMoneyCategories[k].is_income
            /\ ~lunchMoneyCategories[k].archived
            /\ ~lunchMoneyCategories[k].exclude_from_budget
            /\ ~lunchMoneyCategories[k].is_group } }

\* the outcome names a target category: a gift, or a suggestion whose id is
\* one of the categories offered
NamesTarget(e) ==
    \/ orderIsGift(e.order, ownerNames)
    \/ /\ e.reply = "json"
       /\ ReplyOf(e.id).id \in EligibleIds

\* C13: a matched transaction of the default category, not in a group, whose
\* outcome names a target category ends as DryRunSimulated, Applied or
\* ApplyFailed, and outside a dry run exactly one update call is made for
\* it, carrying the target category's id.
C13_TargetedTransactionsAreApplied ==
    \A i \in 1..Len(trace) :
        (/\ Categorized(trace[i])
         /\ trace[i].status # "Updating"
         /\ NamesTarget(trace[i])) =>
            /\ trace[i].status \in {"DryRunSimulated", "Applied", "ApplyFailed"}
            /\ ~options.dryRun =>
                  /\ Cardinality({ n \in 1..Len(updates) :
                                     updates[n].id = trace[i].id }) = 1
                  /\ \A n \in 1..Len(updates) :
                        updates[n].id = trace[i].id =>
                            updates[n].category_id =
                                IF orderIsGift(trace[i].order, ownerNames)
                                THEN categoryNameToId(lunchMoneyCategories, "Gifts")
                                ELSE ReplyOf(trace[i].id).id

\* C14: the "already categorized, but matched" branch is never reached:
\* every transaction the loop hands to the matcher carries the default
\* category id.
C14_LoopSeesOnlyDefaultCategory ==
    /\ \A i \in 1..Len(lunchMoneyAmazonTransactions) :
          lunchMoneyAmazonTransactions[i].category_id = defaultCategoryId
    /\ \A i \in 1..Len(trace) : trace[i].status # "AlreadyCategorizedSkip"

====
